---- MODULE Spec2Model ----
(***************************************************************************)
(* Model of codeflow-web's release download pipeline:                      *)
(*   - the DownloadLinks React component (fetch lifecycle, asset           *)
(*     classification, byte formatting), and                               *)
(*   - scripts/update-releases.mjs (build-time snapshot writer).           *)
(*                                                                         *)
(* Filenames are TLA+ strings; JavaScript's String methods are modelled    *)
(* character by character.  JavaScript numbers that can exceed 2^31 (byte  *)
(* counts) are kept as little-endian base-1024 digit sequences, on which   *)
(* division by a power of 1024 and floor(log_1024) are exact, as they are  *)
(* on IEEE doubles below 2^53.                                             *)
(***************************************************************************)
EXTENDS Integers, Sequences, FiniteSets, TLC

VARIABLES
    upstream,    \* what GET /releases/latest answers in this run
    pc,          \* DownloadLinks: position in the effect's promise chain
    data,        \* DownloadLinks: value flowing into the second .then
    release,     \* DownloadLinks: useState<Release | null>
    loading,     \* DownloadLinks: useState(true)
    error,       \* DownloadLinks: useState<string | null>
    fetchCount,  \* DownloadLinks: number of fetch(API_URL) calls made
    spc,         \* update-releases.mjs: position in main()
    parsed,      \* update-releases.mjs: const release = await res.json()
    file,        \* contents of OUTPUT_PATH
    file0,       \* contents of OUTPUT_PATH before the script ran
    exitCode,    \* update-releases.mjs: process exit code (when spc = "exited")
    bytes,       \* formatBytes: argument
    formatted    \* formatBytes: returned string ("" before the call)

vars == <<upstream, pc, data, release, loading, error, fetchCount,
          spc, parsed, file, file0, exitCode, bytes, formatted>>

uiVars == <<pc, data, release, loading, error, fetchCount>>
scriptVars == <<spc, parsed, file, exitCode>>
fmtVars == <<bytes, formatted>>
nonUI == <<upstream, file0, spc, parsed, file, exitCode, bytes, formatted>>
nonScript == <<upstream, file0, pc, data, release, loading, error, fetchCount,
              bytes, formatted>>
nonFmt == <<upstream, file0, pc, data, release, loading, error, fetchCount,
           spc, parsed, file, exitCode>>

-----------------------------------------------------------------------------
(* Bounds *)

MaxAssets == 3          \* longest release asset list explored
MaxDigits == 5          \* byte counts explored are below 1024^MaxDigits

-----------------------------------------------------------------------------
(* JavaScript values *)

Null == [null |-> TRUE]
undefined == [undefined |-> TRUE]

(* String.prototype.toLowerCase / endsWith / includes *)
UpperChars == "ABCDEFGHIJKLMNOPQRSTUVWXYZ"
LowerChars == "abcdefghijklmnopqrstuvwxyz"

charAt(s, i) == SubSeq(s, i, i)

charToLower(c) ==
    IF \E k \in 1..26 : charAt(UpperChars, k) = c
    THEN charAt(LowerChars, CHOOSE k \in 1..26 : charAt(UpperChars, k) = c)
    ELSE c

RECURSIVE lowerChars(_)
lowerChars(s) ==
    IF Len(s) = 0 THEN ""
    ELSE charToLower(charAt(s, 1)) \o lowerChars(SubSeq(s, 2, Len(s)))

(* the filenames that occur in the explored releases, lower-cased once *)
PoolNames ==
    { "App-1.0.dmg", "App-1.0.exe", "App-1.0.dmg.sha256", "readme.txt",
      "App-1.0-arm64.dmg", "App-darwin-x64.zip", "App-1.0.AppImage",
      "latest-mac.YML", "notes.pdf" }

LowerCaseTable == [n \in PoolNames |-> lowerChars(n)]

toLowerCase(s) ==
    IF s \in PoolNames THEN LowerCaseTable[s] ELSE lowerChars(s)

endsWith(s, suffix) ==
    /\ Len(suffix) <= Len(s)
    /\ SubSeq(s, Len(s) - Len(suffix) + 1, Len(s)) = suffix

includes(s, sub) ==
    \E i \in 1..(Len(s) - Len(sub) + 1) : SubSeq(s, i, i + Len(sub) - 1) = sub

(* Array.prototype.filter / find / some / map *)
RECURSIVE filterBy(_, _)
filterBy(arr, keep) ==
    IF arr = <<>> THEN <<>>
    ELSE (IF Head(keep) THEN <<Head(arr)>> ELSE <<>>)
         \o filterBy(Tail(arr), Tail(keep))

filter(arr, P(_)) == filterBy(arr, [k \in 1..Len(arr) |-> P(arr[k])])

RECURSIVE findBy(_, _)
findBy(arr, hit) ==
    IF arr = <<>> THEN undefined
    ELSE IF Head(hit) THEN Head(arr)
    ELSE findBy(Tail(arr), Tail(hit))

find(arr, P(_)) == findBy(arr, [k \in 1..Len(arr) |-> P(arr[k])])

some(arr, P(_)) == \E k \in 1..Len(arr) : P(arr[k])

map(arr, F(_)) == [k \in 1..Len(arr) |-> F(arr[k])]

-----------------------------------------------------------------------------
(* JavaScript numbers as base-1024 digits, least significant first *)

RECURSIVE Num(_)
Num(n) == IF n < 1024 THEN <<n>> ELSE <<n % 1024>> \o Num(n \div 1024)


(* Math.floor(Math.log(bytes) / Math.log(1024)) for bytes > 0 *)
floorLog1024(b) == Len(b) - 1

(* floor(10 * 0.b[j]b[j-1]...b[1]), the fraction read in base 1024 *)
RECURSIVE tenthsBelow(_, _)
tenthsBelow(b, j) ==
    IF j = 0 THEN 0 ELSE (10 * b[j] + tenthsBelow(b, j - 1)) \div 1024

(* (bytes / Math.pow(1024, i)).toFixed(1): nearest tenth, ties upward *)
toFixed1(b, i) ==
    LET n == 10 * b[i + 1] + (10 * b[i] + 512 + tenthsBelow(b, i - 1)) \div 1024
    IN  ToString(n \div 10) \o "." \o ToString(n % 10)

(* (bytes / Math.pow(1024, 0)).toFixed(0) *)
toFixed0(b) == ToString(b[1])

units == <<"B", "KB", "MB", "GB">>

unitAt(i) == IF i + 1 \in DOMAIN units THEN units[i + 1] ELSE "undefined"

formatBytes(b) ==
    IF b = <<0>> THEN "0 B"
    ELSE LET i == floorLog1024(b)
             value == IF i = 0 THEN toFixed0(b) ELSE toFixed1(b, i)
         IN  value \o " " \o unitAt(i)

-----------------------------------------------------------------------------
(* Asset classification shared by the component and the script *)

(* slip: the suffix test without lower-casing the name *)
isInstallerAssetCaseSensitive(name) ==
    ~(\/ endsWith(name, ".sha256")
      \/ endsWith(name, ".sig")
      \/ endsWith(name, ".blockmap")
      \/ endsWith(name, ".yaml")
      \/ endsWith(name, ".yml"))

isInstallerAsset(name) ==
    LET lower == toLowerCase(name)
    IN  ~(\/ endsWith(lower, ".sha256")
          \/ endsWith(lower, ".sig")
          \/ endsWith(lower, ".blockmap")
          \/ endsWith(lower, ".yaml")
          \/ endsWith(lower, ".yml"))

isInstallerAssetScript(name) ==
    LET lower == toLowerCase(name)
    IN  ~(\/ endsWith(lower, ".sha256")
          \/ endsWith(lower, ".sig")
          \/ endsWith(lower, ".blockmap")
          \/ endsWith(lower, ".yaml")
          \/ endsWith(lower, ".yml"))

matchMacOS(name) ==
    LET lower == toLowerCase(name)
    IN  \/ includes(lower, "mac")
        \/ includes(lower, "darwin")
        \/ includes(lower, "macos")
        \/ endsWith(lower, ".dmg")

matchWindows(name) ==
    LET lower == toLowerCase(name)
    IN  \/ includes(lower, "win")
        \/ endsWith(lower, ".exe")
        \/ endsWith(lower, ".msi")

matchLinux(name) ==
    LET lower == toLowerCase(name)
    IN  \/ includes(lower, "linux")
        \/ endsWith(lower, ".appimage")
        \/ endsWith(lower, ".deb")
        \/ endsWith(lower, ".rpm")

platforms == <<"macOS", "Windows", "Linux">>

match(platform, name) ==
    CASE platform = "macOS"   -> matchMacOS(name)
      [] platform = "Windows" -> matchWindows(name)
      [] platform = "Linux"   -> matchLinux(name)

detectPlatform(name) ==
    LET lower == toLowerCase(name)
    IN  IF \/ includes(lower, "mac")
           \/ includes(lower, "darwin")
           \/ includes(lower, "macos")
           \/ endsWith(lower, ".dmg")
        THEN "macOS"
        ELSE IF \/ includes(lower, "win")
                \/ endsWith(lower, ".exe")
                \/ endsWith(lower, ".msi")
        THEN "Windows"
        ELSE IF \/ includes(lower, "linux")
                \/ endsWith(lower, ".appimage")
                \/ endsWith(lower, ".deb")
                \/ endsWith(lower, ".rpm")
        THEN "Linux"
        ELSE "null"

-----------------------------------------------------------------------------
(* DownloadLinks: what a render computes from the component state *)

View ==
    IF loading THEN "Loading"
    ELSE IF error # Null THEN "Error"
    ELSE IF release = Null THEN "NotFound"
    ELSE "Success"

installerAssets == filter(release.assets, LAMBDA a : isInstallerAsset(a.name))

(* slip: find over release.assets instead of installerAssets *)
platformAssetsUnfiltered ==
    [k \in 1..Len(platforms) |->
        [platform |-> platforms[k],
         asset    |-> find(release.assets,
                           LAMBDA a : match(platforms[k], a.name))]]

platformAssets ==
    [k \in 1..Len(platforms) |->
        [platform |-> platforms[k],
         asset    |-> find(installerAssets,
                           LAMBDA a : match(platforms[k], a.name))]]

(* slip: the negation in front of platforms.some(...) dropped *)
unmatchedAssetsNoNegation ==
    filter(installerAssets,
           LAMBDA a : some(platforms, LAMBDA p : match(p, a.name)))

(* slip: filter over release.assets instead of installerAssets *)
unmatchedAssetsUnfiltered ==
    filter(release.assets,
           LAMBDA a : ~some(platforms, LAMBDA p : match(p, a.name)))

unmatchedAssets ==
    filter(installerAssets,
           LAMBDA a : ~some(platforms, LAMBDA p : match(p, a.name)))

-----------------------------------------------------------------------------
(* The upstream API *)

Asset(name, size) ==
    [name |-> name, browser_download_url |-> "dl/" \o name, size |-> size]

PoolSize ==
    [n \in PoolNames |->
        CASE n = "App-1.0.dmg"        -> 1000000
          [] n = "App-1.0.exe"        -> 2000000
          [] n = "App-1.0.dmg.sha256" -> 64
          [] n = "readme.txt"         -> 500
          [] n = "App-1.0-arm64.dmg"  -> 1536
          [] n = "App-darwin-x64.zip" -> 1073741824
          [] n = "App-1.0.AppImage"   -> 1024
          [] n = "latest-mac.YML"     -> 0
          [] n = "notes.pdf"          -> 2048]

AssetPool == { Asset(n, PoolSize[n]) : n \in PoolNames }

(* asset names are unique within a release *)
AssetLists ==
    UNION { { l \in [1..n -> AssetPool] :
                \A i, j \in 1..n : i # j => l[i] # l[j] } : n \in 0..MaxAssets }

Release(assets) ==
    [tag_name |-> "v1.0", name |-> "", html_url |-> "releases/v1.0",
     published_at |-> "2024-01-01T00:00:00Z", assets |-> assets]

Statuses == {200, 403, 404, 500}

ok(status) == status >= 200 /\ status <= 299

InvalidBody == [kind |-> "invalid"]
JsonBody(value) == [kind |-> "json", value |-> value]

Bodies(status) ==
    IF ok(status)
    THEN {InvalidBody, JsonBody(Null)} \cup {JsonBody(Release(l)) : l \in AssetLists}
    ELSE {JsonBody([message |-> "error"])}

Responses ==
    {[type |-> "network_error"]} \cup
    UNION { { [type |-> "response", status |-> st, body |-> b] : b \in Bodies(st) }
            : st \in Statuses }

truthy(v) == v # Null /\ v # undefined

-----------------------------------------------------------------------------
(* DownloadLinks: the effect's promise chain, one setter call per step *)

ErrorMessage == "Could not fetch release information. Please try again later."

(* useEffect(() => { fetch(API_URL)... }, []) *)
StartFetch ==
    /\ pc = "mounted"
    /\ fetchCount' = fetchCount + 1
    /\ pc' = "pending"
    /\ UNCHANGED <<data, release, loading, error>>
    /\ UNCHANGED nonUI

(* fetch rejects: control passes to .catch *)
FetchRejected ==
    /\ pc = "pending"
    /\ upstream.type = "network_error"
    /\ pc' = "catch"
    /\ UNCHANGED <<data, release, loading, error, fetchCount>>
    /\ UNCHANGED nonUI

(* slip: the 404 branch without its return, falling into the throw *)
ThenNotFoundNoReturn ==
    /\ pc = "pending"
    /\ upstream.type = "response"
    /\ upstream.status = 404
    /\ loading' = FALSE
    /\ pc' = "catch"
    /\ UNCHANGED <<data, release, error, fetchCount>>
    /\ UNCHANGED nonUI

(* first .then, res.status === 404: setLoading(false); return null *)
ThenNotFound ==
    /\ pc = "pending"
    /\ upstream.type = "response"
    /\ upstream.status = 404
    /\ loading' = FALSE
    /\ data' = Null
    /\ pc' = "then2"
    /\ UNCHANGED <<release, error, fetchCount>>
    /\ UNCHANGED nonUI

(* first .then, !res.ok: throw new Error(...) *)
ThenHttpError ==
    /\ pc = "pending"
    /\ upstream.type = "response"
    /\ upstream.status # 404
    /\ ~ok(upstream.status)
    /\ pc' = "catch"
    /\ UNCHANGED <<data, release, loading, error, fetchCount>>
    /\ UNCHANGED nonUI

(* first .then, otherwise: return res.json() *)
ThenJson ==
    /\ pc = "pending"
    /\ upstream.type = "response"
    /\ upstream.status # 404
    /\ ok(upstream.status)
    /\ pc' = "json"
    /\ UNCHANGED <<data, release, loading, error, fetchCount>>
    /\ UNCHANGED nonUI

JsonResolved ==
    /\ pc = "json"
    /\ upstream.body.kind = "json"
    /\ data' = upstream.body.value
    /\ pc' = "then2"
    /\ UNCHANGED <<release, loading, error, fetchCount>>
    /\ UNCHANGED nonUI

JsonRejected ==
    /\ pc = "json"
    /\ upstream.body.kind = "invalid"
    /\ pc' = "catch"
    /\ UNCHANGED <<data, release, loading, error, fetchCount>>
    /\ UNCHANGED nonUI

(* second .then: if (data) setRelease(data) *)
ThenSetRelease ==
    /\ pc = "then2"
    /\ truthy(data)
    /\ release' = data
    /\ pc' = "then2_setLoading"
    /\ UNCHANGED <<data, loading, error, fetchCount>>
    /\ UNCHANGED nonUI

(* second .then: setLoading(false) *)
ThenSetLoading ==
    /\ \/ pc = "then2_setLoading"
       \/ pc = "then2" /\ ~truthy(data)
    /\ loading' = FALSE
    /\ pc' = "settled"
    /\ UNCHANGED <<data, release, error, fetchCount>>
    /\ UNCHANGED nonUI

(* .catch: setError(...) *)
CatchSetError ==
    /\ pc = "catch"
    /\ error' = [message |-> ErrorMessage]
    /\ pc' = "catch_setLoading"
    /\ UNCHANGED <<data, release, loading, fetchCount>>
    /\ UNCHANGED nonUI

(* .catch: setLoading(false) *)
CatchSetLoading ==
    /\ pc = "catch_setLoading"
    /\ loading' = FALSE
    /\ pc' = "settled"
    /\ UNCHANGED <<data, release, error, fetchCount>>
    /\ UNCHANGED nonUI

-----------------------------------------------------------------------------
(* scripts/update-releases.mjs: main() *)

NoFile == [absent |-> TRUE]

PriorFiles ==
    { NoFile,
      [release |-> [version |-> "v0.9", tagName |-> "v0.9",
                    url |-> "releases/v0.9",
                    publishedAt |-> "2023-01-01T00:00:00Z", assets |-> <<>>],
       fetchedAt |-> "earlier"] }

(* one element of the artifact's assets array *)
artifactAsset(a) ==
    [name |-> a.name,
     url |-> a.browser_download_url,
     size |-> a.size,
     sizeFormatted |-> formatBytes(Num(a.size)),
     platform |-> detectPlatform(a.name)]

artifactAssets(rel) ==
    map(filter(rel.assets, LAMBDA a : isInstallerAssetScript(a.name)),
        artifactAsset)

artifactData(rel) ==
    [release |-> [version |-> IF rel.name # "" THEN rel.name ELSE rel.tag_name,
                  tagName |-> rel.tag_name,
                  url |-> rel.html_url,
                  publishedAt |-> rel.published_at,
                  assets |-> artifactAssets(rel)],
     fetchedAt |-> "now"]

(* const res = await fetch(API_URL, ...) *)
ScriptFetchResolved ==
    /\ spc = "start"
    /\ upstream.type = "response"
    /\ spc' = "fetched"
    /\ UNCHANGED <<parsed, file, exitCode>>
    /\ UNCHANGED nonScript

(* fetch rejects; main()'s promise rejects unhandled and node exits 1 *)
ScriptFetchRejected ==
    /\ spc = "start"
    /\ upstream.type = "network_error"
    /\ spc' = "exited"
    /\ exitCode' = 1
    /\ UNCHANGED <<parsed, file>>
    /\ UNCHANGED nonScript

(* res.status === 404: write { release: null, fetchedAt } and return *)
ScriptNotFound ==
    /\ spc = "fetched"
    /\ upstream.status = 404
    /\ file' = [release |-> Null, fetchedAt |-> "now"]
    /\ spc' = "exited"
    /\ exitCode' = 0
    /\ UNCHANGED <<parsed>>
    /\ UNCHANGED nonScript

(* slip: every non-2xx status handled like 404 *)
ScriptHttpErrorWritesNull ==
    /\ spc = "fetched"
    /\ upstream.status # 404
    /\ ~ok(upstream.status)
    /\ file' = [release |-> Null, fetchedAt |-> "now"]
    /\ spc' = "exited"
    /\ exitCode' = 0
    /\ UNCHANGED <<parsed>>
    /\ UNCHANGED nonScript

(* !res.ok: console.error(...); process.exit(1) *)
ScriptHttpError ==
    /\ spc = "fetched"
    /\ upstream.status # 404
    /\ ~ok(upstream.status)
    /\ spc' = "exited"
    /\ exitCode' = 1
    /\ UNCHANGED <<parsed, file>>
    /\ UNCHANGED nonScript

(* const release = await res.json() *)
ScriptJsonResolved ==
    /\ spc = "fetched"
    /\ upstream.status # 404
    /\ ok(upstream.status)
    /\ upstream.body.kind = "json"
    /\ parsed' = upstream.body.value
    /\ spc' = "parsed"
    /\ UNCHANGED <<file, exitCode>>
    /\ UNCHANGED nonScript

ScriptJsonRejected ==
    /\ spc = "fetched"
    /\ upstream.status # 404
    /\ ok(upstream.status)
    /\ upstream.body.kind = "invalid"
    /\ spc' = "exited"
    /\ exitCode' = 1
    /\ UNCHANGED <<parsed, file>>
    /\ UNCHANGED nonScript

(* release.assets.filter(...).map(...); mkdirSync; writeFileSync; logs *)
ScriptWrite ==
    /\ spc = "parsed"
    /\ parsed # Null
    /\ file' = artifactData(parsed)
    /\ spc' = "exited"
    /\ exitCode' = 0
    /\ UNCHANGED <<parsed>>
    /\ UNCHANGED nonScript

(* release is null: release.assets throws TypeError, unhandled, node exits 1 *)
ScriptTypeError ==
    /\ spc = "parsed"
    /\ parsed = Null
    /\ spc' = "exited"
    /\ exitCode' = 1
    /\ UNCHANGED <<parsed, file>>
    /\ UNCHANGED nonScript

-----------------------------------------------------------------------------
(* formatBytes called on its own *)

DigitSamples == {0, 1, 500, 512, 1023}

ByteInputs ==
    UNION { { b \in [1..n -> DigitSamples] : n > 1 => b[n] # 0 } : n \in 1..MaxDigits }

CallFormatBytes ==
    /\ formatted = ""
    /\ formatted' = formatBytes(bytes)
    /\ UNCHANGED bytes
    /\ UNCHANGED nonFmt

-----------------------------------------------------------------------------
(* Specifications *)

InitUI ==
    /\ pc = "mounted"
    /\ data = undefined
    /\ release = Null
    /\ loading = TRUE
    /\ error = Null
    /\ fetchCount = 0

InitScript ==
    /\ spc = "start"
    /\ parsed = undefined
    /\ file0 \in PriorFiles
    /\ file = file0
    /\ exitCode = 0

Init ==
    /\ upstream \in Responses
    /\ InitUI
    /\ InitScript
    /\ bytes = <<0>>
    /\ formatted = ""

Next ==
    \/ StartFetch
    \/ FetchRejected
    \/ ThenNotFound
    \/ ThenHttpError
    \/ ThenJson
    \/ JsonResolved
    \/ JsonRejected
    \/ ThenSetRelease
    \/ ThenSetLoading
    \/ CatchSetError
    \/ CatchSetLoading
    \/ ScriptFetchResolved
    \/ ScriptFetchRejected
    \/ ScriptNotFound
    \/ ScriptHttpError
    \/ ScriptJsonResolved
    \/ ScriptJsonRejected
    \/ ScriptWrite
    \/ ScriptTypeError

Spec == Init /\ [][Next]_vars

(* the promise callbacks of a settled fetch are always run by the event loop *)
FairSpec ==
    /\ Init
    /\ [][Next]_vars
    /\ WF_vars(StartFetch)
    /\ WF_vars(FetchRejected)
    /\ WF_vars(ThenNotFound)
    /\ WF_vars(ThenHttpError)
    /\ WF_vars(ThenJson)
    /\ WF_vars(JsonResolved)
    /\ WF_vars(JsonRejected)
    /\ WF_vars(ThenSetRelease)
    /\ WF_vars(ThenSetLoading)
    /\ WF_vars(CatchSetError)
    /\ WF_vars(CatchSetLoading)

InitFormat ==
    /\ upstream = [type |-> "network_error"]
    /\ InitUI
    /\ InitScript
    /\ file0 = NoFile
    /\ bytes \in ByteInputs
    /\ formatted = ""

NextFormat == CallFormatBytes

SpecFormat == InitFormat /\ [][NextFormat]_vars

-----------------------------------------------------------------------------
(* Vocabulary of the properties *)

Range(seq) == {seq[k] : k \in DOMAIN seq}

(* the elements of arr at the positions in K, in increasing position *)
SubseqAt(arr, K) ==
    [n \in 1..Cardinality(K) |->
        arr[CHOOSE k \in K : Cardinality({j \in K : j < k}) = n - 1]]

Min(K) == CHOOSE k \in K : \A j \in K : k <= j

Slot(platform) ==
    (CHOOSE pa \in Range(platformAssets) : pa.platform = platform).asset

Is404 == upstream.type = "response" /\ upstream.status = 404
Is2xx == upstream.type = "response" /\ ok(upstream.status)
Rendered == View = "Success"

Scenario ==
    <<Asset("App-1.0.dmg", 1000000), Asset("App-1.0.exe", 2000000),
      Asset("App-1.0.dmg.sha256", 64)>>

-----------------------------------------------------------------------------
(* C1: once the release is rendered, every platform's slot holds the first *)
(* asset, in the release's own order, that passes the installer filter and *)
(* satisfies that platform's matcher, and is undefined exactly when there  *)
(* is no such asset; the dmg/exe/dmg.sha256 scenario gives macOS = dmg,    *)
(* Windows = exe, Linux absent, unmatched empty.                           *)
FirstMatchPerPlatform ==
    Rendered =>
        /\ \A p \in Range(platforms) :
             LET hits == {i \in 1..Len(release.assets) :
                            /\ isInstallerAsset(release.assets[i].name)
                            /\ match(p, release.assets[i].name)}
             IN  IF hits = {} THEN Slot(p) = undefined
                 ELSE Slot(p) = release.assets[Min(hits)]
        /\ release.assets = Scenario =>
             /\ Slot("macOS") = Scenario[1]
             /\ Slot("Windows") = Scenario[2]
             /\ Slot("Linux") = undefined
             /\ unmatchedAssets = <<>>

FirstMatchWitness ==
    /\ Rendered
    /\ release.assets = Scenario
    /\ Slot("macOS").name = "App-1.0.dmg"
    /\ Slot("Linux") = undefined

NoMatcher(name) == \A p \in Range(platforms) : ~match(p, name)

UnmatchedMatchNoPlatform ==
    Rendered =>
        /\ \A k \in 1..Len(unmatchedAssets) :
             /\ isInstallerAsset(unmatchedAssets[k].name)
             /\ NoMatcher(unmatchedAssets[k].name)
        /\ unmatchedAssets =
             SubseqAt(release.assets,
                      {i \in 1..Len(release.assets) :
                         /\ isInstallerAsset(release.assets[i].name)
                         /\ NoMatcher(release.assets[i].name)})

UnmatchedMatchNoPlatformWitness ==
    /\ Rendered
    /\ Len(release.assets) = 3
    /\ unmatchedAssets = <<Asset("notes.pdf", 2048), Asset("readme.txt", 500)>>

(* C7 as stated: no asset occupies the slots of two different platforms.   *)
SlotsAreExclusive ==
    Rendered =>
        \A p, q \in Range(platforms) :
            (p # q /\ Slot(p) # undefined) => Slot(p) # Slot(q)

DeniedSuffixes == {".sha256", ".sig", ".blockmap", ".yaml", ".yml"}

SameLetter(c, l) ==
    \/ c = l
    \/ \E u \in 1..26 : charAt(LowerChars, u) = l /\ charAt(UpperChars, u) = c

HasDeniedSuffix(name) ==
    \E suf \in DeniedSuffixes :
        /\ Len(suf) <= Len(name)
        /\ \A k \in 1..Len(suf) :
             SameLetter(charAt(name, Len(name) - Len(suf) + k), charAt(suf, k))

Names(arr) == [k \in 1..Len(arr) |-> arr[k].name]

Written == file # file0

(* C8: the installer filter, in the component and in the script, removes   *)
(* exactly the assets whose name ends, ignoring case, in .sha256, .sig,    *)
(* .blockmap, .yaml or .yml, keeps the rest in order, and the two agree.   *)
InstallerFilterDenylist ==
    /\ Rendered =>
         installerAssets =
            SubseqAt(release.assets,
                     {i \in 1..Len(release.assets) :
                        ~HasDeniedSuffix(release.assets[i].name)})
    /\ (Written /\ file.release # Null) =>
         Names(file.release.assets) =
            SubseqAt(Names(parsed.assets),
                     {i \in 1..Len(parsed.assets) :
                        ~HasDeniedSuffix(parsed.assets[i].name)})
    /\ (Rendered /\ Written /\ file.release # Null) =>
         Names(file.release.assets) = Names(installerAssets)

InstallerFilterWitness ==
    /\ Rendered
    /\ Written
    /\ release.assets = <<Asset("latest-mac.YML", 0), Asset("App-1.0.exe", 2000000),
                          Asset("App-1.0.dmg.sha256", 64)>>
    /\ Names(file.release.assets) = <<"App-1.0.exe">>

(* C6 as stated: the artifact's assets are the component's installer       *)
(* assets in the same order, each platform's slot is the first artifact    *)
(* asset labelled with that platform (absent when none is), and            *)
(* unmatchedAssets are the artifact assets labelled null.                  *)
ScriptAgreesWithComponent ==
    (Rendered /\ Written /\ file.release # Null) =>
        LET arts == file.release.assets
        IN  /\ Names(arts) = Names(installerAssets)
            /\ \A p \in Range(platforms) :
                 LET labelled == {i \in 1..Len(arts) : arts[i].platform = p}
                 IN  IF labelled = {} THEN Slot(p) = undefined
                     ELSE /\ Slot(p) # undefined
                          /\ Slot(p).name = arts[Min(labelled)].name
            /\ Names(unmatchedAssets) =
                 Names(SubseqAt(arts, {i \in 1..Len(arts) :
                                         arts[i].platform = "null"}))

(* C4 as stated: once loading ends, NotFound is shown iff upstream         *)
(* answered 404, Success iff it answered 2xx with a body that parsed, and  *)
(* Error in every other case.                                              *)
ViewDeterminedByOutcome ==
    ~loading =>
        LET parsedOk == Is2xx /\ upstream.body.kind = "json"
        IN  /\ View = "NotFound" <=> Is404
            /\ View = "Success" <=> parsedOk
            /\ View = "Error" <=> (~Is404 /\ ~parsedOk)

(* C5: the script writes the artifact only on 404 (release: null, exit 0)  *)
(* or on a 2xx response (the release, exit 0); on any other status it      *)
(* exits 1 and the artifact is what it was before the run.                 *)
WritesOnlyOnSuccessOrNotFound ==
    /\ Written =>
         /\ spc = "exited"
         /\ exitCode = 0
         /\ Is404 \/ Is2xx
         /\ Is404 => file = [release |-> Null, fetchedAt |-> "now"]
         /\ Is2xx =>
              /\ file.release # Null
              /\ file.release.tagName = upstream.body.value.tag_name
              /\ file.release.url = upstream.body.value.html_url
              /\ file.release.publishedAt = upstream.body.value.published_at
    /\ (spc = "exited" /\ Is404) => Written
    /\ (spc = "exited" /\ upstream.type = "response" /\ ~Is404 /\ ~Is2xx) =>
         /\ exitCode = 1
         /\ file = file0

WritesOnlyWitness ==
    /\ spc = "exited"
    /\ upstream.type = "response"
    /\ upstream.status = 500
    /\ file0 # NoFile
    /\ file = file0
    /\ exitCode = 1

(* C10: the view starts as Loading, the fetch is started exactly once,     *)
(* a view other than Loading never changes afterwards, and once the fetch  *)
(* has been started the view eventually leaves Loading.                    *)
ViewSettlesOnce ==
    /\ [](pc = "mounted" => View = "Loading" /\ fetchCount = 0)
    /\ [](pc # "mounted" => fetchCount = 1)
    /\ [][View # "Loading" => View' = View]_vars
    /\ (pc = "pending") ~> (View # "Loading")

ViewSettlesOnceWitness ==
    /\ pc = "settled"
    /\ fetchCount = 1
    /\ View = "Success"
    /\ release.assets = Scenario

(* C9 as stated: formatBytes gives "0 B" for 0 and otherwise a number      *)
(* followed by the largest of B, KB, MB, GB not exceeding the byte count,  *)
(* without decimals for B and with one decimal otherwise; 500, 1024, 1536  *)
(* and 1073741824 give "500 B", "1.0 KB", "1.5 KB" and "1.0 GB".           *)
FormatUsesUnitTable ==
    formatted # "" =>
        /\ bytes = <<0>> => formatted = "0 B"
        /\ bytes # <<0>> =>
             \E i \in 0..3 :
                LET tail == " " \o units[i + 1]
                    digits == SubSeq(formatted, 1, Len(formatted) - Len(tail))
                IN  /\ endsWith(formatted, tail)
                    /\ Len(bytes) = i + 1
                    /\ i = 0 => ~includes(digits, ".")
                    /\ i > 0 => /\ Len(digits) >= 3
                                /\ charAt(digits, Len(digits) - 1) = "."
        /\ bytes = Num(500) => formatted = "500 B"
        /\ bytes = Num(1024) => formatted = "1.0 KB"
        /\ bytes = Num(1536) => formatted = "1.5 KB"
        /\ bytes = Num(1073741824) => formatted = "1.0 GB"

====
